---- MODULE Spec2Model ----
(***************************************************************************)
(* News Intelligence Pro: the cost manager (src/src/cost_manager.py), the *)
(* analysis sub-tasks, the article analyzer and the batch coordinator     *)
(* (src/src/ai_analyzer.py), and the run of the actor (src/src/main.py).  *)
(*                                                                         *)
(* Money is counted in whole units of half a micro-dollar, the finest     *)
(* price step of the program (one gpt-3.5-turbo input token), so that     *)
(* every price of the program is an integer number of units.              *)
(* A Python call ends in an outcome: a returned value or a raised         *)
(* exception.  A Python dict is a record; a key the code never sets is    *)
(* absent from the record's DOMAIN.                                        *)
(***************************************************************************)
EXTENDS Integers, Sequences, FiniteSets, TLC

(***************************************************************************)
(* Bounds of the model                                                     *)
(***************************************************************************)
\* article counts tried: 0 and free_tier_limit -/+ CountSpread
CountSpread == 2
\* at most this many articles are reported to track_usage in one call
MaxBatch == 1
\* a batch holds 1 .. MaxArticles articles and runs 1 .. MaxConcurrent at once
MaxArticles == 2
MaxConcurrent == 2
\* token counts tried for a prompt and for a completion
MaxInputTokens == 2
MaxOutputTokens == 1
\* generate_cost_report is called on lists of at most this many records
MaxReport == 2
\* track_usage is called while articles_processed stays within this
MaxProcessed == 2
\* and while the session cost stays within this many half article rates
MaxSpendSteps == 3

(***************************************************************************)
(* Units and outcomes                                                      *)
(***************************************************************************)
UnitsPerDollar == 2 * 1000 * 1000

Return(v) == [raised |-> FALSE, value |-> v]
Raise(e) == [raised |-> TRUE, exc |-> e]

Max(a, b) == IF a >= b THEN a ELSE b
Min(a, b) == IF a <= b THEN a ELSE b

\* Python None for an optional string
None == "<None>"
\* Python truth value of an Optional[str]
Truthy(s) == s # None /\ s # ""

(***************************************************************************)
(* CostManager (src/src/cost_manager.py)                                   *)
(***************************************************************************)
free_tier_limit == 50

\* self.pricing: dollars per 1000 articles, and the free-tier threshold
pricing ==
    [built_in_ai |-> 6 * UnitsPerDollar,
     byok |-> 2 * UnitsPerDollar,
     free_tier_limit |-> free_tier_limit]

\* 0.001 dollars per article, the infrastructure cost of the basic tier
BasicCostPerArticle == UnitsPerDollar \div 1000
BuiltInCostPerArticle == pricing.built_in_ai \div 1000
ByokCostPerArticle == pricing.byok \div 1000

\* os.environ.get("DAILY_SPEND_LIMIT", "50.0")
DefaultDailyLimit == 50 * UnitsPerDollar

VARIABLES
    current_session_cost,   \* CostManager.current_session_cost
    articles_processed,     \* CostManager.articles_processed
    daily_limit,            \* float(os.environ["DAILY_SPEND_LIMIT"])
    ret,                    \* the last CostManager call: its name, arguments and outcome
    \* one call of a sub-task of AINewsAnalyzer
    task,                   \* the method called
    model,                  \* AINewsAnalyzer.model
    special,                \* where the text holds a token the encoding refuses
    unsafe,                 \* where the text holds what the moderation service flags
    pc,                     \* the call's position
    calls,                  \* the external requests the call has issued, in order
    input_tokens,           \* count_tokens(prompt) of the call
    result,                 \* the call's outcome
    \* one call of batch_analyze
    articles,               \* the list of article dicts
    include_content,        \* the argument include_content
    max_concurrent,         \* the argument max_concurrent
    semaphore,              \* the free slots of asyncio.Semaphore(max_concurrent)
    worker,                 \* each article's analyze_with_limit task
    subs,                   \* each article's three sub-task tasks
    analyzed_articles,      \* what batch_analyze has returned
    \* one run of main
    actor_input,            \* Actor.get_input()
    openai_env,             \* os.environ.get("OPENAI_API_KEY")
    mpc,                    \* the run's position
    validation,             \* the outcome of cost_manager.validate_request
    fetched,                \* whether the news feeds have been fetched
    enriched,               \* whether article contents have been fetched
    dataset,                \* the records pushed with Actor.push_data, in order
    exit_code,              \* how the run ended
    \* calls of analyze_article on its own
    call,                   \* the last call: the article, include_content and
                            \* what the three sub-tasks end with
    analysis_result,        \* the call's outcome
    earlier                 \* a second article and the outcome of its call

costVars == <<current_session_cost, articles_processed, daily_limit, ret>>
taskVars == <<task, model, special, unsafe, pc, calls, input_tokens, result>>
batchVars ==
    <<articles, include_content, max_concurrent, semaphore, worker, subs,
      analyzed_articles>>
mainVars ==
    <<actor_input, openai_env, mpc, validation, fetched, enriched, dataset,
      exit_code>>
articleVars == <<call, analysis_result, earlier>>
vars == <<costVars, taskVars, batchVars, mainVars, articleVars>>
\* what a CostManager method, a sub-task call and a batch leave alone
notCostVars == <<taskVars, batchVars, mainVars, articleVars>>
notTaskVars == <<costVars, batchVars, mainVars, articleVars>>
notBatchVars == <<costVars, taskVars, mainVars, articleVars>>

\* the branch of calculate_pricing_tier taken, in the order the code tests
PricingBranch(enable_ai, user_api_key, articles_count) ==
    IF ~enable_ai THEN "basic"
    ELSE IF Truthy(user_api_key) THEN "byok"
    ELSE IF articles_count <= pricing.free_tier_limit THEN "free"
    ELSE "built_in_ai"

\* the local variables the taken branch has assigned when line 59 is reached;
\* the free branch assigns no cost_per_article
PricingLocals(enable_ai, user_api_key, articles_count) ==
    LET branch == PricingBranch(enable_ai, user_api_key, articles_count) IN
    CASE branch = "basic" ->
           [tier |-> "basic",
            description |-> "Basic news aggregation (no AI analysis)",
            cost_per_article |-> BasicCostPerArticle,
            total_cost |-> articles_count * BasicCostPerArticle]
      [] branch = "byok" ->
           [tier |-> "byok",
            description |-> "Enterprise BYOK tier (user's OpenAI API key)",
            cost_per_article |-> ByokCostPerArticle,
            total_cost |-> articles_count * ByokCostPerArticle]
      [] branch = "free" ->
           [tier |-> "free",
            description |-> "Free tier",
            total_cost |-> 0]
      [] OTHER ->
           [tier |-> "built_in_ai",
            description |-> "Built-in AI tier",
            cost_per_article |-> BuiltInCostPerArticle,
            total_cost |-> (articles_count - pricing.free_tier_limit) * BuiltInCostPerArticle]

\* calculate_pricing_tier: the dict of lines 59-67 is built from the locals.
\* "cost_per_article" is read under a locals() guard, "cost_per_1000" reads
\* cost_per_article unguarded when the tier is no key of self.pricing: with
\* cost_per_article unassigned that read raises UnboundLocalError.
calculate_pricing_tier(enable_ai, user_api_key, articles_count) ==
    LET l == PricingLocals(enable_ai, user_api_key, articles_count)
        has_cpa == "cost_per_article" \in DOMAIN l
    IN  IF l.tier \notin DOMAIN pricing /\ ~has_cpa
        THEN Raise("UnboundLocalError")
        ELSE Return(
               [tier |-> l.tier,
                description |-> l.description,
                cost_per_article |-> IF has_cpa THEN l.cost_per_article ELSE 0,
                cost_per_1000 |-> IF l.tier \in DOMAIN pricing
                                  THEN pricing[l.tier]
                                  ELSE l.cost_per_article * 1000,
                total_cost |-> l.total_cost,
                articles_count |-> articles_count,
                currency |-> "USD"])

\* limit_exceeded of check_daily_limits
LimitExceeded_Strict(spend, limit) == spend > limit

LimitExceeded(spend, limit) == spend >= limit

\* check_daily_limits: int() truncates the non-negative quotient
check_daily_limits(spend, limit) ==
    LET remaining_budget == Max(0, limit - spend) IN
    [daily_limit |-> limit,
     current_spend |-> spend,
     remaining_budget |-> remaining_budget,
     articles_remaining |-> remaining_budget \div (pricing.built_in_ai \div 1000),
     limit_exceeded |-> LimitExceeded(spend, limit)]

\* the tiers whose requests validate_request checks against the daily limits
BudgetGated(tier) == tier = "built_in_ai"

\* the rejection of a request larger than the remaining budget (lines 108-116)
TooLargeRejection_Clamped(pricing_info, limits, max_articles) ==
    [valid |-> TRUE,
     pricing |-> pricing_info,
     estimated_cost |-> pricing_info.total_cost]

TooLargeRejection(pricing_info, limits, max_articles) ==
    [valid |-> FALSE,
     error |-> "exceeds remaining daily budget",
     pricing |-> pricing_info,
     limits |-> limits,
     suggested_max_articles |-> limits.articles_remaining]

\* validate_request: an exception of calculate_pricing_tier is not caught
validate_request(enable_ai, user_api_key, max_articles, spend, limit) ==
    LET p == calculate_pricing_tier(enable_ai, user_api_key, max_articles) IN
    IF p.raised THEN p
    ELSE LET pricing_info == p.value
             limits == check_daily_limits(spend, limit)
         IN  IF BudgetGated(pricing_info.tier) /\ limits.limit_exceeded
             THEN Return([valid |-> FALSE,
                          error |-> "Daily spending limit exceeded",
                          pricing |-> pricing_info,
                          limits |-> limits])
             ELSE IF BudgetGated(pricing_info.tier)
                     /\ max_articles > limits.articles_remaining
             THEN Return(TooLargeRejection(pricing_info, limits, max_articles))
             ELSE Return([valid |-> TRUE,
                          pricing |-> pricing_info,
                          estimated_cost |-> pricing_info.total_cost])

\* inputs tried
ArticleCounts ==
    {0} \cup ((free_tier_limit - CountSpread) .. (free_tier_limit + CountSpread))
ApiKeys == {None, "", "sk-user"}
DailyLimits ==
    {0, DefaultDailyLimit}
      \cup {BuiltInCostPerArticle * n + BuiltInCostPerArticle \div 2 :
              n \in {1, free_tier_limit + 1}}
UsageCosts == {0, BuiltInCostPerArticle \div 2, BuiltInCostPerArticle}

NoCall == [op |-> "none"]

\* a CostManager as __init__ leaves it (lines 14-21)
CostManagerInit ==
    /\ current_session_cost = 0
    /\ articles_processed = 0
    /\ ret = NoCall

\* analyzed_articles before batch_analyze has returned: the list is still
\* empty (a batch has at least one article and returns a record for each)
NotReturned == <<>>

\* no sub-task call is under way
TaskIdle ==
    /\ task = None
    /\ model = None
    /\ special = "none"
    /\ unsafe = "none"
    /\ pc = "idle"
    /\ calls = <<>>
    /\ input_tokens = 0
    /\ result = None

\* no batch is under way
BatchIdle ==
    /\ articles = <<>>
    /\ include_content = TRUE
    /\ max_concurrent = 0
    /\ semaphore = 0
    /\ worker = <<>>
    /\ subs = <<>>
    /\ analyzed_articles = NotReturned

\* no run of main is under way
MainIdle ==
    /\ actor_input = None
    /\ openai_env = None
    /\ mpc = "idle"
    /\ validation = None
    /\ fetched = FALSE
    /\ enriched = FALSE
    /\ dataset = <<>>
    /\ exit_code = None

\* analyze_article has not been called on its own
ArticleIdle ==
    /\ call = NoCall
    /\ analysis_result = NoCall
    /\ earlier = NoCall

InitCost ==
    /\ CostManagerInit
    /\ daily_limit \in DailyLimits
    /\ TaskIdle
    /\ BatchIdle
    /\ MainIdle
    /\ ArticleIdle

CalculatePricingTier ==
    \E enable_ai \in BOOLEAN, user_api_key \in ApiKeys, articles_count \in ArticleCounts :
        /\ ret' = [op |-> "calculate_pricing_tier",
                   enable_ai |-> enable_ai,
                   user_api_key |-> user_api_key,
                   articles_count |-> articles_count,
                   out |-> calculate_pricing_tier(enable_ai, user_api_key, articles_count)]
        /\ UNCHANGED <<current_session_cost, articles_processed, daily_limit>>
        /\ UNCHANGED notCostVars

CheckDailyLimits ==
    /\ ret' = [op |-> "check_daily_limits",
               out |-> Return(check_daily_limits(current_session_cost, daily_limit))]
    /\ UNCHANGED <<current_session_cost, articles_processed, daily_limit>>
    /\ UNCHANGED notCostVars

ValidateRequest ==
    \E enable_ai \in BOOLEAN, user_api_key \in ApiKeys, max_articles \in ArticleCounts :
        /\ ret' = [op |-> "validate_request",
                   enable_ai |-> enable_ai,
                   user_api_key |-> user_api_key,
                   max_articles |-> max_articles,
                   out |-> validate_request(enable_ai, user_api_key, max_articles,
                                            current_session_cost, daily_limit)]
        /\ UNCHANGED <<current_session_cost, articles_processed, daily_limit>>
        /\ UNCHANGED notCostVars

TrackUsage ==
    \E n \in 0 .. MaxBatch, actual_cost \in UsageCosts :
        /\ articles_processed + n <= MaxProcessed
        /\ current_session_cost + actual_cost
              <= MaxSpendSteps * (BuiltInCostPerArticle \div 2)
        /\ articles_processed' = articles_processed + n
        /\ current_session_cost' = current_session_cost + actual_cost
        /\ ret' = [op |-> "track_usage", out |-> Return(None)]
        /\ UNCHANGED daily_limit
        /\ UNCHANGED notCostVars

\* d.get(k, default)
Get(d, k, default) == IF k \in DOMAIN d THEN d[k] ELSE default
\* the empty dict {}
EmptyDict == <<>>

\* "error" in analysis
HasErrorMarker_Never(analysis) == FALSE

HasErrorMarker(analysis) == "error" \in DOMAIN analysis

\* the loop of generate_cost_report (lines 149-168) over the records, in
\* order: the counts, the AI cost and its breakdown
RECURSIVE ReportTotals(_)
ReportTotals(analysis_results) ==
    IF analysis_results = <<>>
    THEN [successful_analyses |-> 0, failed_analyses |-> 0, total_ai_cost |-> 0,
          sentiment_analysis |-> 0, summarization |-> 0, classification |-> 0]
    ELSE LET rest == ReportTotals(Tail(analysis_results))
             analysis == Get(Head(analysis_results), "analysis", EmptyDict)
         IN  IF HasErrorMarker(analysis)
             THEN [rest EXCEPT !.failed_analyses = @ + 1]
             ELSE [successful_analyses |-> rest.successful_analyses + 1,
                   failed_analyses |-> rest.failed_analyses,
                   total_ai_cost |->
                       rest.total_ai_cost + Get(analysis, "total_cost", 0),
                   sentiment_analysis |->
                       rest.sentiment_analysis
                         + Get(Get(analysis, "sentiment", EmptyDict), "cost", 0),
                   summarization |->
                       rest.summarization
                         + Get(Get(analysis, "summarization", EmptyDict), "cost", 0),
                   classification |->
                       rest.classification
                         + Get(Get(analysis, "classification", EmptyDict), "cost", 0)]

\* f"{x:.1f}" of x = num / den * 100: the tenths of a percent, rounded to the
\* nearest (a tie goes to the even tenth)
FormatTenths(num, den) ==
    LET q == (num * 1000) \div den
        r == (num * 1000) % den
    IN  IF 2 * r > den \/ (2 * r = den /\ q % 2 = 1) THEN q + 1 ELSE q

\* the success_rate string: "<tenths / 10>.<tenths % 10>%", or the literal "0%"
success_rate(successful_analyses, total_articles) ==
    IF total_articles > 0
    THEN [tenths |-> FormatTenths(successful_analyses, total_articles)]
    ELSE [literal |-> "0%"]

\* a float quotient num / den, kept exact
Quotient(num, den) == [num |-> num, den |-> den]

\* generate_cost_report (lines 132-196)
generate_cost_report(analysis_results, session_cost, processed) ==
    LET totals == ReportTotals(analysis_results)
        total_articles == Len(analysis_results)
    IN  [summary |->
           [total_articles_requested |-> total_articles,
            successful_analyses |-> totals.successful_analyses,
            failed_analyses |-> totals.failed_analyses,
            success_rate |-> success_rate(totals.successful_analyses, total_articles)],
         costs |->
           [ai_processing |->
              [total |-> totals.total_ai_cost,
               per_article |->
                  IF totals.successful_analyses > 0
                  THEN Quotient(totals.total_ai_cost, totals.successful_analyses)
                  ELSE 0,
               breakdown |->
                  [sentiment_analysis |-> totals.sentiment_analysis,
                   summarization |-> totals.summarization,
                   classification |-> totals.classification,
                   content_moderation |-> 0]],
            platform_usage |-> session_cost - totals.total_ai_cost,
            total_session_cost |-> session_cost,
            currency |-> "USD"],
         usage_stats |->
           [articles_processed |-> processed,
            average_cost_per_article |->
               IF processed > 0 THEN Quotient(session_cost, processed) ELSE 0]]

\* get_billing_summary (lines 198-224): the summary's tier line and total,
\* or the free-tier sentence; an exception of calculate_pricing_tier is not
\* caught
get_billing_summary(pricing_tier, articles_count) ==
    LET p == calculate_pricing_tier(pricing_tier # "basic",
                                    IF pricing_tier = "byok" THEN "True" ELSE "",
                                    articles_count)
    IN  IF p.raised THEN p
        ELSE IF p.value.total_cost = 0
        THEN Return([free_tier |-> TRUE, articles_count |-> articles_count])
        ELSE Return([free_tier |-> FALSE,
                     description |-> p.value.description,
                     articles_count |-> articles_count,
                     cost_per_1000 |-> p.value.cost_per_1000,
                     total_cost |-> p.value.total_cost,
                     note |-> CASE pricing_tier = "built_in_ai" -> "includes AI"
                                [] pricing_tier = "byok" -> "OpenAI billed separately"
                                [] OTHER -> ""])

\* article records tried for a report: one without analysis, one with an
\* error record, two analyzed ones (the second with a sentiment result that
\* has no cost)
ReportRecords ==
    {[title |-> "plain"],
     [title |-> "plain", analysis |-> [error |-> "ValueError", total_cost |-> 7]],
     [title |-> "plain",
      analysis |-> [sentiment |-> [score |-> 80, cost |-> 5],
                    classification |-> [cost |-> 5],
                    summarization |-> [cost |-> 0],
                    total_cost |-> 10]],
     [title |-> "plain",
      analysis |-> [sentiment |-> [score |-> 0, moderation_flagged |-> TRUE],
                    classification |-> [cost |-> 5],
                    summarization |-> [cost |-> 5],
                    total_cost |-> 10]]}

RECURSIVE SeqsUpTo(_, _)
SeqsUpTo(S, n) ==
    IF n = 0 THEN {<<>>}
    ELSE LET shorter == SeqsUpTo(S, n - 1) IN
         shorter \cup {Append(q, x) : q \in shorter, x \in S}

\* a generate_cost_report that books the AI cost it reports
GenerateCostReport_Charging ==
    \E analysis_results \in SeqsUpTo(ReportRecords, MaxReport) :
        /\ ret' = [op |-> "generate_cost_report",
                   analysis_results |-> analysis_results,
                   out |-> Return(generate_cost_report(analysis_results,
                                                       current_session_cost,
                                                       articles_processed))]
        /\ current_session_cost' =
             current_session_cost + ReportTotals(analysis_results).total_ai_cost
        /\ UNCHANGED <<articles_processed, daily_limit>>
        /\ UNCHANGED notCostVars

GenerateCostReport ==
    \E analysis_results \in SeqsUpTo(ReportRecords, MaxReport) :
        /\ ret' = [op |-> "generate_cost_report",
                   analysis_results |-> analysis_results,
                   out |-> Return(generate_cost_report(analysis_results,
                                                       current_session_cost,
                                                       articles_processed))]
        /\ UNCHANGED <<current_session_cost, articles_processed, daily_limit>>
        /\ UNCHANGED notCostVars

\* the tier names a billing summary is asked for
PricingTiers == {"basic", "byok", "free", "built_in_ai"}

GetBillingSummary ==
    \E pricing_tier \in PricingTiers, articles_count \in ArticleCounts :
        /\ ret' = [op |-> "get_billing_summary",
                   pricing_tier |-> pricing_tier,
                   articles_count |-> articles_count,
                   out |-> get_billing_summary(pricing_tier, articles_count)]
        /\ UNCHANGED <<current_session_cost, articles_processed, daily_limit>>
        /\ UNCHANGED notCostVars

NextCost ==
    \/ CalculatePricingTier
    \/ CheckDailyLimits
    \/ ValidateRequest
    \/ TrackUsage
    \/ GenerateCostReport
    \/ GetBillingSummary

SpecCost == InitCost /\ [][NextCost]_vars

(***************************************************************************)
(* Claims about the cost manager, checked under SpecCost                   *)
(***************************************************************************)
IsCall(op) == ret.op = op
Returned == ~ret.out.raised
\* the request of the last call falls in the built-in AI band of the policy
NoKeyAiRequest == ret.enable_ai /\ ~Truthy(ret.user_api_key)

\* C6: with AI enabled and no user key, calculate_pricing_tier returns tier
\* "free" with total_cost 0 for every article count <= 50, and for a count of
\* 51 returns a total_cost of exactly one built-in per-article rate.
C6_FreeTierBoundary ==
    (IsCall("calculate_pricing_tier") /\ NoKeyAiRequest) =>
        /\ ret.articles_count <= 50 =>
              /\ Returned
              /\ ret.out.value.tier = "free"
              /\ ret.out.value.total_cost = 0
        /\ ret.articles_count = 51 =>
              /\ Returned
              /\ ret.out.value.total_cost = 1 * BuiltInCostPerArticle

\* the part of C6 the code does deliver: 51 articles cost one built-in rate
C6_PaidBoundaryReached ==
    /\ IsCall("calculate_pricing_tier") /\ NoKeyAiRequest
    /\ ret.articles_count = 51
    /\ Returned
    /\ ret.out.value.tier = "built_in_ai"
    /\ ret.out.value.total_cost = BuiltInCostPerArticle

\* C7: calculate_pricing_tier selects the tier in strict priority order for
\* every input: AI disabled gives "basic" whatever the key and the count,
\* otherwise a supplied key gives "byok" whatever the count, and only
\* otherwise the count decides between "free" and "built_in_ai"; for basic
\* and byok the total cost is the count times the flat per-article rate.
C7_TierPriority ==
    IsCall("calculate_pricing_tier") =>
        /\ Returned
        /\ ret.out.value.tier =
              (IF ~ret.enable_ai THEN "basic"
               ELSE IF Truthy(ret.user_api_key) THEN "byok"
               ELSE IF ret.articles_count <= free_tier_limit THEN "free"
               ELSE "built_in_ai")
        /\ ret.out.value.tier = "basic" =>
              ret.out.value.total_cost = ret.articles_count * BasicCostPerArticle
        /\ ret.out.value.tier = "byok" =>
              ret.out.value.total_cost = ret.articles_count * ByokCostPerArticle

\* the request of the last validate_request falls in the built-in tier and
\* asks for more articles than the remaining daily budget pays for
ArticlesRemaining ==
    Max(0, daily_limit - current_session_cost) \div BuiltInCostPerArticle
BuiltInRequestTooLarge ==
    /\ IsCall("validate_request") /\ NoKeyAiRequest
    /\ ret.max_articles > free_tier_limit
    /\ ret.max_articles > ArticlesRemaining
HasSuggestion ==
    /\ "suggested_max_articles" \in DOMAIN ret.out.value
    /\ ret.out.value.suggested_max_articles <= ArticlesRemaining

\* C8 as stated: validate_request rejects every built-in-tier request whose
\* article count exceeds articles_remaining, and the rejection carries a
\* suggested article count <= articles_remaining.
C8_RejectsWithSuggestion ==
    BuiltInRequestTooLarge =>
        /\ Returned
        /\ ~ret.out.value.valid
        /\ HasSuggestion

\* C8 as amended: every such request is rejected (never accepted with a
\* reduced count); the rejection carries a suggested count <=
\* articles_remaining unless the daily limit is already exceeded, in which
\* case it is the limit-exceeded rejection and carries no suggested count.
C8_RejectsTooLarge ==
    BuiltInRequestTooLarge =>
        /\ Returned
        /\ ~ret.out.value.valid
        /\ ret.out.value.pricing.articles_count = ret.max_articles
        /\ IF current_session_cost >= daily_limit
           THEN "suggested_max_articles" \notin DOMAIN ret.out.value
           ELSE HasSuggestion

\* a too-large built-in request made with budget left for some articles
C8_Witness ==
    /\ BuiltInRequestTooLarge
    /\ current_session_cost < daily_limit
    /\ ArticlesRemaining > free_tier_limit
    /\ ~ret.out.value.valid

\* C9: validate_request never rejects a request on budget grounds when the
\* selected tier is free, basic or BYOK: for every session spend and every
\* daily limit such a request is returned as valid with its pricing decision.
C9_UngatedTiersValid ==
    (/\ IsCall("validate_request")
     /\ \/ ~ret.enable_ai
        \/ Truthy(ret.user_api_key)
        \/ ret.max_articles <= free_tier_limit) =>
        /\ Returned
        /\ ret.out.value.valid
        /\ ret.out.value.pricing.articles_count = ret.max_articles
        /\ ret.out.value.pricing.tier \in {"free", "basic", "byok"}

\* C10: check_daily_limits returns remaining_budget = max(0, limit - spend),
\* articles_remaining = floor(remaining_budget / built-in per-article rate)
\* and limit_exceeded exactly when spend >= limit; so limit_exceeded implies
\* articles_remaining = 0.
C10_DailyLimits ==
    IsCall("check_daily_limits") =>
        LET v == ret.out.value IN
        /\ Returned
        /\ v.remaining_budget =
              (IF daily_limit - current_session_cost > 0
               THEN daily_limit - current_session_cost ELSE 0)
        /\ v.articles_remaining * BuiltInCostPerArticle <= v.remaining_budget
        /\ v.remaining_budget < (v.articles_remaining + 1) * BuiltInCostPerArticle
        /\ v.limit_exceeded <=> (current_session_cost >= daily_limit)
        /\ v.limit_exceeded => v.articles_remaining = 0

\* the limits are checked when the spend has just reached a positive limit
C10_Witness ==
    /\ IsCall("check_daily_limits")
    /\ current_session_cost = daily_limit
    /\ daily_limit > 0
    /\ ret.out.value.limit_exceeded

\* the records of the last report, and whether one carries an error marker
ReportedRecords == ret.analysis_results
ErrorMarked(record) ==
    "analysis" \in DOMAIN record /\ "error" \in DOMAIN record.analysis
RECURSIVE CostOfUnmarked(_)
CostOfUnmarked(records) ==
    IF records = <<>> THEN 0
    ELSE (IF ErrorMarked(Head(records)) \/ "analysis" \notin DOMAIN Head(records)
          THEN 0 ELSE Head(records).analysis.total_cost)
           + CostOfUnmarked(Tail(records))

\* C19: generate_cost_report, for any list of article records, the empty
\* list included, returns without a division fault; failed_analyses counts
\* the records with an error marker and successful_analyses the others, so
\* they add up to the total; success_rate is successes / total * 100 to one
\* decimal ("0%" when the total is 0); no cost of an error-marked record is
\* added.
C19_CostReport ==
    IsCall("generate_cost_report") =>
        LET v == ret.out.value
            total == Len(ReportedRecords)
            failed == Cardinality({i \in 1 .. total : ErrorMarked(ReportedRecords[i])})
        IN  /\ Returned
            /\ v.summary.total_articles_requested = total
            /\ v.summary.failed_analyses = failed
            /\ v.summary.successful_analyses = total - failed
            /\ IF total = 0
               THEN v.summary.success_rate = [literal |-> "0%"]
               ELSE /\ DOMAIN v.summary.success_rate = {"tenths"}
                    /\ LET t == v.summary.success_rate.tenths IN
                       /\ 2 * (t * total - (total - failed) * 1000) <= total
                       /\ 2 * ((total - failed) * 1000 - t * total) <= total
            /\ v.costs.ai_processing.total = CostOfUnmarked(ReportedRecords)

\* a report on a failed record that carries a cost and an analyzed one
C19_Witness ==
    /\ IsCall("generate_cost_report")
    /\ Len(ReportedRecords) = 2
    /\ ErrorMarked(ReportedRecords[1])
    /\ ReportedRecords[1].analysis.total_cost > 0
    /\ ~ErrorMarked(ReportedRecords[2])
    /\ ret.out.value.summary.success_rate = [tenths |-> 500]
    /\ ret.out.value.costs.ai_processing.total = 10

ReadOnlyOps ==
    {"calculate_pricing_tier", "check_daily_limits", "validate_request",
     "generate_cost_report", "get_billing_summary"}
BudgetChanges ==
    \/ current_session_cost' # current_session_cost
    \/ articles_processed' # articles_processed

\* C25: calculate_pricing_tier, check_daily_limits, validate_request,
\* generate_cost_report and get_billing_summary leave the budget state
\* (current_session_cost, articles_processed) and the pricing constants
\* unchanged; track_usage is the only operation that changes the budget
\* state.  (The pricing constants are the definitions `pricing` and
\* daily_limit, the DAILY_SPEND_LIMIT of the environment.)
C25_FrameEffects ==
    [][/\ ret'.op \in ReadOnlyOps =>
            /\ ~BudgetChanges
            /\ daily_limit' = daily_limit
       /\ BudgetChanges => ret'.op = "track_usage"
       /\ daily_limit' = daily_limit]_vars

\* a report and a billing summary were asked for after usage was tracked
C25_Witness ==
    /\ current_session_cost > 0
    /\ articles_processed > 0
    /\ ret.op \in {"generate_cost_report", "get_billing_summary"}
    /\ ret.op = "generate_cost_report" =>
          ret.out.value.costs.total_session_cost = current_session_cost

(***************************************************************************)
(* The analysis sub-tasks of AINewsAnalyzer (src/src/ai_analyzer.py)       *)
(*                                                                         *)
(* One call of analyze_sentiment, summarize_article or classify_topics, as *)
(* analyze_article makes it: the text is the article's title and content.  *)
(* The call is suspended at each await of an external request; what the    *)
(* service answers is chosen when the request returns.  Scores and         *)
(* confidences are counted in hundredths.                                  *)
(***************************************************************************)
SubTasks == {"analyze_sentiment", "summarize_article", "classify_topics"}

\* models tiktoken knows; "gpt-4o" has no entry in self.pricing
Models == {"gpt-3.5-turbo", "gpt-4", "gpt-4o"}

\* self.pricing: units per 1K tokens
model_pricing ==
    ("gpt-3.5-turbo" :> [input |-> (5 * UnitsPerDollar) \div 10000,
                         output |-> (15 * UnitsPerDollar) \div 10000])
    @@ ("gpt-4" :> [input |-> UnitsPerDollar \div 100,
                    output |-> (3 * UnitsPerDollar) \div 100])
    @@ ("gpt-4-turbo" :> [input |-> UnitsPerDollar \div 100,
                          output |-> (3 * UnitsPerDollar) \div 100])

calculate_cost(m, in_tokens, out_tokens) ==
    IF m \notin DOMAIN model_pricing
    THEN 0
    ELSE LET price_config == model_pricing[m] IN
         (in_tokens * price_config.input) \div 1000
           + (out_tokens * price_config.output) \div 1000

\* a moderate_content that treats a failed request as flagged content
moderate_content_FailClosed(response) ==
    [flagged |-> (response \in {"flagged", "error"}),
     categories |-> IF response = "flagged" THEN {"flagged-category"} ELSE {},
     category_scores |-> IF response = "flagged" THEN {"flagged-category"} ELSE {}]

\* moderate_content: what it returns for the service's response; a failed
\* request is caught and reported as not flagged
moderate_content(response) ==
    IF response = "error"
    THEN [flagged |-> FALSE, categories |-> {}, category_scores |-> {}]
    ELSE [flagged |-> (response = "flagged"),
          categories |-> IF response = "flagged" THEN {"flagged-category"} ELSE {},
          category_scores |-> IF response = "flagged" THEN {"flagged-category"} ELSE {}]

\* whether the sub-task asks the moderation service before its completion
HasModeration(t) == t \in {"analyze_sentiment", "summarize_article"}

\* what the moderation service answers for the text the sub-task submits:
\* analyze_sentiment submits its whole text, summarize_article the first
\* 1000 characters of title and content
ModerationVerdict(t, where) ==
    IF t = "analyze_sentiment" THEN where # "none" ELSE where = "head"

\* truncate_text encodes its argument outside any try: analyze_sentiment
\* passes title and content, the other two the content alone
TruncateRaises(t, sp) ==
    IF t = "analyze_sentiment" THEN sp # "none" ELSE sp = "content"

\* count_tokens(prompt), inside the try, encodes the title with the prompt
CountTokensRaises(t, sp) == sp # "none"

\* the result returned for flagged content
FlaggedResult(t) ==
    IF t = "analyze_sentiment"
    THEN [score |-> 0,
          label |-> "neutral",
          confidence |-> 0,
          reasoning |-> "Content flagged by moderation",
          moderation_flagged |-> TRUE]
    ELSE [summary |-> "Content unavailable due to moderation policies",
          key_points |-> <<>>,
          cost |-> 0,
          moderation_flagged |-> TRUE]

\* the result returned by the except clause
FallbackResult(t) ==
    CASE t = "analyze_sentiment" ->
           [score |-> 0,
            label |-> "neutral",
            confidence |-> 0,
            reasoning |-> "Analysis failed",
            cost |-> 0,
            moderation_flagged |-> FALSE]
      [] t = "summarize_article" ->
           [summary |-> "Summary unavailable",
            key_points |-> <<>>,
            cost |-> 0,
            moderation_flagged |-> FALSE]
      [] OTHER ->
           [categories |-> <<"General">>,
            entities |-> [people |-> <<>>, companies |-> <<>>,
                          locations |-> <<>>, events |-> <<>>],
            keywords |-> <<>>,
            cost |-> 0]

\* the result built from the parsed JSON object: the computed cost (and, but
\* for classify_topics, moderation_flagged) is stored into it
ParsedResult(t, payload, cost) ==
    IF t = "classify_topics"
    THEN [cost |-> cost] @@ payload
    ELSE [cost |-> cost, moderation_flagged |-> FALSE] @@ payload

\* the try block from the completion's response on: usage, cost, parsing
AfterCompletion(t, m, in_tokens, response) ==
    IF response.kind = "error" THEN FallbackResult(t)
    ELSE LET output_tokens ==
                 IF response.has_usage THEN response.completion_tokens ELSE 0
             cost == calculate_cost(m, in_tokens, output_tokens)
         IN  IF response.content = "json"
             THEN ParsedResult(t, response.payload, cost)
             ELSE FallbackResult(t)

\* JSON objects the completion service may answer with
Payloads(t) ==
    CASE t = "analyze_sentiment" ->
           {[score |-> 80, label |-> "positive", confidence |-> 90,
             reasoning |-> "upbeat"],
            [score |-> 150, label |-> "mixed", confidence |-> 120,
             reasoning |-> "unsure"]}
      [] t = "summarize_article" ->
           {[summary |-> "text", key_points |-> <<"point">>]}
      [] OTHER ->
           {[categories |-> <<"Technology">>,
             entities |-> [people |-> <<>>, companies |-> <<>>,
                           locations |-> <<>>, events |-> <<>>],
             keywords |-> <<"ai">>]}

\* the completion service's responses: a failed request, or a message whose
\* content is None, holds no {...}, holds a {...} that is no JSON, or holds a
\* JSON object
CompletionResponses(t) ==
    {[kind |-> "error"]}
      \cup [kind : {"ok"},
            has_usage : BOOLEAN,
            completion_tokens : 0 .. MaxOutputTokens,
            content : {"none", "no_json", "bad_json"},
            payload : {None}]
      \cup [kind : {"ok"},
            has_usage : BOOLEAN,
            completion_tokens : 0 .. MaxOutputTokens,
            content : {"json"},
            payload : Payloads(t)]

ResponseTag(response) ==
    IF response.kind = "error" THEN "error" ELSE response.content

Request(kind) == [kind |-> kind, response |-> "pending"]
Answered(response) == [calls EXCEPT ![Len(calls)].response = response]

InitTask ==
    /\ CostManagerInit
    /\ daily_limit = DefaultDailyLimit
    /\ task \in SubTasks
    /\ model \in Models
    /\ special \in {"none", "title", "content"}
    /\ unsafe \in {"none", "head", "tail"}
    /\ pc = "called"
    /\ calls = <<>>
    /\ input_tokens = 0
    /\ result = None
    /\ BatchIdle
    /\ MainIdle
    /\ ArticleIdle

\* from the prompt's f-string to the await of the completion request: the
\* call raises out of truncate_text, falls back when count_tokens raises, or
\* issues the completion request; cs is the list of requests so far
BuildPrompt(cs) ==
    IF TruncateRaises(task, special)
    THEN /\ pc' = "raised"
         /\ result' = Raise("ValueError")
         /\ calls' = cs
         /\ UNCHANGED input_tokens
    ELSE IF CountTokensRaises(task, special)
    THEN /\ pc' = "returned"
         /\ result' = Return(FallbackResult(task))
         /\ calls' = cs
         /\ UNCHANGED input_tokens
    ELSE \E n \in 1 .. MaxInputTokens :
            /\ pc' = "completing"
            /\ input_tokens' = n
            /\ calls' = Append(cs, Request("completion"))
            /\ UNCHANGED result

\* the call runs to its first await
Begin ==
    /\ pc = "called"
    /\ IF HasModeration(task)
       THEN /\ pc' = "moderating"
            /\ calls' = Append(calls, Request("moderation"))
            /\ UNCHANGED <<input_tokens, result>>
       ELSE BuildPrompt(calls)
    /\ UNCHANGED <<task, model, special, unsafe>>
    /\ UNCHANGED notTaskVars

\* the moderation request returns or fails
ModerationReturn ==
    /\ pc = "moderating"
    /\ \E failed \in BOOLEAN :
         LET response == IF failed THEN "error"
                         ELSE IF ModerationVerdict(task, unsafe) THEN "flagged"
                         ELSE "clean"
             moderation == moderate_content(response)
         IN  IF moderation.flagged
             THEN /\ pc' = "returned"
                  /\ result' = Return(FlaggedResult(task))
                  /\ calls' = Answered(response)
                  /\ UNCHANGED input_tokens
             ELSE BuildPrompt(Answered(response))
    /\ UNCHANGED <<task, model, special, unsafe>>
    /\ UNCHANGED notTaskVars

\* the completion request returns or fails
CompletionReturn ==
    /\ pc = "completing"
    /\ \E response \in CompletionResponses(task) :
         /\ result' = Return(AfterCompletion(task, model, input_tokens, response))
         /\ calls' = Answered(ResponseTag(response))
    /\ pc' = "returned"
    /\ UNCHANGED <<task, model, special, unsafe, input_tokens>>
    /\ UNCHANGED notTaskVars

NextTask ==
    \/ Begin
    \/ ModerationReturn
    \/ CompletionReturn

SpecTask == InitTask /\ [][NextTask]_vars

(***************************************************************************)
(* Claims about the sub-tasks, checked under SpecTask                      *)
(***************************************************************************)
Issued(kind) == \E i \in 1 .. Len(calls) : calls[i].kind = kind
AnsweredWith(kind, tags) ==
    \E i \in 1 .. Len(calls) : calls[i].kind = kind /\ calls[i].response \in tags
\* the cost a caller reads with result.get("cost", 0)
CostRead(r) == IF "cost" \in DOMAIN r THEN r.cost ELSE 0
FlaggedRead(r) ==
    IF "moderation_flagged" \in DOMAIN r THEN r.moderation_flagged ELSE FALSE

\* C3: analyze_sentiment, summarize_article and classify_topics never raise
\* to their caller: every failure in moderation, prompt construction
\* (truncate_text and the token encoding of the text included), the
\* completion call or the response parsing ends in a returned result.
C3_NeverRaises == pc # "raised"

\* a failure inside the try does end in a returned fallback
C3_FallbackReached ==
    /\ pc = "returned"
    /\ AnsweredWith("completion", {"error", "none", "no_json", "bad_json"})
    /\ result.value = FallbackResult(task)

\* C4: for each of the three sub-tasks, when the moderation service flags
\* the article's text (and its request does not fail), the sub-task returns
\* a flagged result of cost 0 and never issues a completion request.
C4_FlaggedNeverSubmitted ==
    (unsafe # "none" /\ ~AnsweredWith("moderation", {"error"})) =>
        /\ ~Issued("completion")
        /\ pc = "returned" =>
             /\ FlaggedRead(result.value)
             /\ CostRead(result.value) = 0

\* C5: every result a sub-task returns carries a cost >= 0, and the cost is
\* exactly 0 when the result is flagged, the completion call failed or the
\* response could not be parsed.
C5_CostCarried ==
    pc = "returned" =>
        /\ "cost" \in DOMAIN result.value
        /\ result.value.cost >= 0
        /\ (\/ FlaggedRead(result.value)
            \/ AnsweredWith("completion", {"error", "none", "no_json", "bad_json"}))
             => result.value.cost = 0

\* C22: every non-fallback sentiment result returned by analyze_sentiment
\* has score in [-1.0, 1.0], label in {positive, negative, neutral} and
\* confidence in [0.0, 1.0], whatever text the completion collaborator
\* returns.
C22_SentimentRanges ==
    (/\ task = "analyze_sentiment"
     /\ pc = "returned"
     /\ result.value # FallbackResult(task)) =>
        /\ {"score", "label", "confidence"} \subseteq DOMAIN result.value
        /\ result.value.score \in -100 .. 100
        /\ result.value.label \in {"positive", "negative", "neutral"}
        /\ result.value.confidence \in 0 .. 100

ModerationFailed == AnsweredWith("moderation", {"error"})
PromptBuilds ==
    ~TruncateRaises(task, special) /\ ~CountTokensRaises(task, special)

\* C23: moderate_content never raises to its caller: when the moderation
\* request fails it returns flagged = false with empty categories, so the
\* calling sub-task proceeds to the completion call as for unflagged
\* content (it issues the completion request whenever its prompt builds,
\* and ends as truncate_text, count_tokens and the completion decide, never
\* with a flagged result).
C23_ModerationNeverRaises ==
    ModerationFailed =>
        /\ moderate_content("error")
              = [flagged |-> FALSE, categories |-> {}, category_scores |-> {}]
        /\ pc \in {"completing", "returned", "raised"}
        /\ Issued("completion") <=> PromptBuilds
        /\ pc = "raised" => TruncateRaises(task, special)
        /\ pc = "returned" =>
             /\ ~FlaggedRead(result.value)
             /\ result.value # FlaggedResult(task)

\* the moderation request failed on a text the service would flag, and the
\* sub-task went on to a completion whose result it returned
C23_Witness ==
    /\ ModerationFailed
    /\ unsafe # "none"
    /\ ModerationVerdict(task, unsafe)
    /\ pc = "returned"
    /\ AnsweredWith("completion", {"json"})
    /\ result.value.cost > 0

(***************************************************************************)
(* analyze_article and batch_analyze (src/src/ai_analyzer.py)              *)
(*                                                                         *)
(* One call of batch_analyze on the default model.  Each article has one   *)
(* analyze_with_limit task (worker) and, once admitted, three sub-task     *)
(* tasks run by asyncio.gather.  A text is one of: None, "" (empty),       *)
(* "plain" (a title), "short" (200 characters), "long" (201 characters),   *)
(* "special" (long, with a token the encoding refuses).  What an article   *)
(* dict holds is chosen when the batch first reads it.                     *)
(***************************************************************************)
SubTaskOf ==
    [sentiment |-> "analyze_sentiment",
     classification |-> "classify_topics",
     summarization |-> "summarize_article"]
SubNames == DOMAIN SubTaskOf

\* the model of AINewsAnalyzer(api_key=api_key)
DefaultModel == "gpt-3.5-turbo"

MinSummarizeLen == 200

\* len(text): "short", "long" and "special" stand for texts of 200, 201 and
\* 201 characters, every other text is spelled out
TextLen(text) ==
    CASE text = "short" -> 200
      [] text \in {"long", "special"} -> 201
      [] OTHER -> Len(text)

\* f"{x}"
Str(x) == IF x = None THEN "None" ELSE x

\* lines 261-262: the identifier is the digest of f"{title}{content}"; the
\* digest is taken to be injective, so the hashed string stands for it
article_id(title, content) == Str(title) \o Str(content)

Lower_AsIs(text) == text

\* title.lower(), for the titles tried
Lower(text) ==
    CASE text = "BREAKING: ab" -> "breaking: ab"
      [] text = "Urgent" -> "urgent"
      [] OTHER -> text

\* word in text, for the lower-case texts tried
Contains(word, text) ==
    CASE word = "breaking" -> text \in {"breaking", "breaking: ab"}
      [] word = "urgent" -> text \in {"urgent"}
      [] OTHER -> FALSE

Falsy(text) == text = None \/ text = ""

\* lines 254-258: the text analyze_article analyzes
ChooseContent(article, inc) ==
    LET content == IF inc THEN article.content ELSE article.summary IN
    IF Falsy(content) THEN article.title ELSE content

\* where title and content hold a token the encoding refuses
SpecialIn(title, content) ==
    IF content = "special" THEN "content"
    ELSE IF title = "special" THEN "title"
    ELSE "none"

\* line 271: whether summarize_article is called
NeedsSummary_AtThreshold(content) == TextLen(content) >= MinSummarizeLen

NeedsSummary(content) == TextLen(content) > MinSummarizeLen

\* the task appended when the content is not longer than 200 characters
SynthesizedSummary(article) ==
    [summary |-> article.summary,
     key_points |-> <<>>,
     cost |-> 0,
     moderation_flagged |-> FALSE]

\* sentiment.get("score", 0)
ScoreRead(r) == IF "score" \in DOMAIN r THEN r.score ELSE 0
Abs(x) == IF x < 0 THEN -x ELSE x

\* lines 290-295 and 303, in hundredths
trending_score(title, sentiment) ==
    LET base == 50
        urgent == IF Contains("breaking", Lower(title)) \/ Contains("urgent", Lower(title))
                  THEN 30 ELSE 0
        strong == IF Abs(ScoreRead(sentiment)) > 70 THEN 20 ELSE 0
    IN  Min(base + urgent + strong, 100)

AssembleAnalysis_NoSummaryCost(title, content, sentiment, classification, summarization) ==
    Return(
      [article_id |-> article_id(title, content),
       sentiment |-> sentiment,
       classification |-> classification,
       summarization |-> summarization,
       trending_score |-> trending_score(title, sentiment),
       total_cost |-> CostRead(sentiment) + CostRead(classification)])

\* lines 283-309: the analysis built from the three gathered results;
\* title.lower() raises on a title that is None
AssembleAnalysis(title, content, sentiment, classification, summarization) ==
    IF title = None
    THEN Raise("AttributeError")
    ELSE Return(
           [article_id |-> article_id(title, content),
            sentiment |-> sentiment,
            classification |-> classification,
            summarization |-> summarization,
            trending_score |-> trending_score(title, sentiment),
            total_cost |-> CostRead(sentiment) + CostRead(classification)
                             + CostRead(summarization)])

\* analyze_with_limit, lines 323-334: what the task ends with for the
\* outcome of analyze_article; the except clause turns an exception into an
\* error record
AnalyzeWithLimit_NoCatch(article, outcome) ==
    IF outcome.raised
    THEN outcome
    ELSE Return([analysis |-> outcome.value] @@ article)

AnalyzeWithLimit(article, outcome) ==
    IF outcome.raised
    THEN Return([analysis |-> [error |-> outcome.exc, total_cost |-> 0]] @@ article)
    ELSE Return([analysis |-> outcome.value] @@ article)

\* the free slots after "async with semaphore" is left
Release_Leaked(free) == free

Release(free) == free + 1

\* whether a waiting analyze_with_limit may enter "async with semaphore"
SlotFree_Always(free) == TRUE

SlotFree(free) == free > 0

\* lines 341-344: the task results that are no exceptions, in order
RECURSIVE FilterExceptions(_)
FilterExceptions(outcomes) ==
    IF outcomes = <<>> THEN <<>>
    ELSE LET rest == FilterExceptions(Tail(outcomes)) IN
         IF Head(outcomes).raised THEN rest ELSE <<Head(outcomes).value>> \o rest

\* the article dicts tried: a fetched body; no body (the title is analyzed);
\* a body with a token the encoding refuses; no title and no body
ArticleInputs ==
    {[title |-> "plain", summary |-> "short", content |-> "long"],
     [title |-> "plain", summary |-> "short", content |-> None],
     [title |-> "plain", summary |-> "short", content |-> "special"],
     [title |-> None, summary |-> "short", content |-> None]}

\* in a batch the services answer: the moderation service does not flag (or
\* fails), the completion service returns usage and a JSON object as the
\* prompt asks
FollowsPrompt(t, payload) ==
    t = "analyze_sentiment" =>
        /\ payload.score \in -100 .. 100
        /\ payload.confidence \in 0 .. 100
        /\ payload.label \in {"positive", "negative", "neutral"}
BatchModerations == {"clean", "error"}
BatchResponses(t) ==
    {r \in CompletionResponses(t) :
        /\ r.kind = "ok"
        /\ r.content = "json"
        /\ r.has_usage
        /\ r.completion_tokens = MaxOutputTokens
        /\ FollowsPrompt(t, r.payload)}

Unread == [unread |-> TRUE]
NoSub == [pc |-> "none", result |-> None]
Sub(p, r) == [pc |-> p, result |-> r]

Init ==
    /\ CostManagerInit
    /\ daily_limit = DefaultDailyLimit
    /\ TaskIdle
    /\ include_content \in BOOLEAN
    /\ max_concurrent \in 1 .. MaxConcurrent
    /\ semaphore = max_concurrent
    /\ \E n \in 1 .. MaxArticles :
         /\ articles = [a \in 1 .. n |-> Unread]
         /\ worker = [a \in 1 .. n |-> [pc |-> "queued", failed |-> FALSE, task_result |-> None]]
         /\ subs = [a \in 1 .. n |-> [t \in SubNames |-> NoSub]]
    /\ analyzed_articles = NotReturned
    /\ MainIdle
    /\ ArticleIdle

Articles == DOMAIN articles
\* batch_analyze has been called
BatchCalled == max_concurrent > 0
\* the batch runs inside main: its articles come from NewsAggregator, which
\* gives every article a title string (news_sources.py line 226)
FromAggregator == mpc # "idle"
Title(a) == articles[a].title
Content(a) == ChooseContent(articles[a], include_content)

\* the end of an analyze_with_limit task whose analyze_article ended in outcome
EndWorker(a, article, outcome) ==
    LET r == AnalyzeWithLimit(article, outcome) IN
    /\ worker' = [worker EXCEPT ![a] =
                    [pc |-> "done", failed |-> outcome.raised, task_result |-> r]]
    /\ articles' = [articles EXCEPT ![a] = IF r.raised THEN article ELSE r.value]

\* a sub-task from its prompt to its completion request, on the texts of
\* article
SubPrompt(article, t) ==
    LET sp == SpecialIn(article.title, ChooseContent(article, include_content)) IN
    IF TruncateRaises(SubTaskOf[t], sp) THEN Sub("raised", None)
    ELSE IF CountTokensRaises(SubTaskOf[t], sp)
    THEN Sub("done", FallbackResult(SubTaskOf[t]))
    ELSE Sub("completing", None)

\* a created sub-task runs to its first await
SubBegin(article, t) ==
    IF HasModeration(SubTaskOf[t])
    THEN Sub("moderating", None)
    ELSE SubPrompt(article, t)

\* analyze_with_limit enters the semaphore and analyze_article runs to its
\* gather: it raises at len(content) when title and content are None (and the
\* slot is given back at once), or creates the three tasks.  The tasks are
\* queued back to back and each runs to its first await before any callback
\* queued after them; asyncio.sleep(0, result) ends in the same round.
StartArticle(a) ==
    /\ BatchCalled
    /\ worker[a].pc = "queued"
    /\ SlotFree(semaphore)
    /\ \E article \in ArticleInputs :
         LET content == ChooseContent(article, include_content) IN
         /\ FromAggregator => article.title # None
         /\ IF content = None
            THEN /\ EndWorker(a, article, Raise("TypeError"))
                 /\ UNCHANGED <<semaphore, subs>>
            ELSE /\ articles' = [articles EXCEPT ![a] = article]
                 /\ worker' = [worker EXCEPT ![a].pc = "running"]
                 /\ semaphore' = semaphore - 1
                 /\ subs' = [subs EXCEPT ![a] =
                               [sentiment |-> SubBegin(article, "sentiment"),
                                classification |-> SubBegin(article, "classification"),
                                summarization |->
                                   IF NeedsSummary(content)
                                   THEN SubBegin(article, "summarization")
                                   ELSE Sub("done", SynthesizedSummary(article))]]
    /\ UNCHANGED <<include_content, max_concurrent, analyzed_articles>>
    /\ UNCHANGED notBatchVars

\* a sub-task's moderation request returns or fails
SubModerationReturn(a, t) ==
    /\ BatchCalled
    /\ subs[a][t].pc = "moderating"
    /\ \E response \in BatchModerations :
         subs' = [subs EXCEPT ![a][t] =
                    IF moderate_content(response).flagged
                    THEN Sub("done", FlaggedResult(SubTaskOf[t]))
                    ELSE SubPrompt(articles[a], t)]
    /\ UNCHANGED <<articles, include_content, max_concurrent, semaphore, worker,
                   analyzed_articles>>
    /\ UNCHANGED notBatchVars

\* a sub-task's completion request returns or fails
SubCompletionReturn(a, t) ==
    /\ BatchCalled
    /\ subs[a][t].pc = "completing"
    /\ \E response \in BatchResponses(SubTaskOf[t]) :
         subs' = [subs EXCEPT ![a][t] =
                    Sub("done", AfterCompletion(SubTaskOf[t], DefaultModel,
                                                MaxInputTokens, response))]
    /\ UNCHANGED <<articles, include_content, max_concurrent, semaphore, worker,
                   analyzed_articles>>
    /\ UNCHANGED notBatchVars

\* the gather of analyze_article ends: with the first exception of a
\* sub-task, or with the three results once all are done; analyze_with_limit
\* attaches the analysis or the error record and leaves the semaphore
FinishArticle(a) ==
    /\ BatchCalled
    /\ worker[a].pc = "running"
    /\ \/ \E t \in SubNames : subs[a][t].pc = "raised"
       \/ \A t \in SubNames : subs[a][t].pc = "done"
    /\ LET outcome ==
             IF \E t \in SubNames : subs[a][t].pc = "raised"
             THEN Raise("ValueError")
             ELSE AssembleAnalysis(Title(a), Content(a),
                                   subs[a].sentiment.result,
                                   subs[a].classification.result,
                                   subs[a].summarization.result)
       IN  EndWorker(a, articles[a], outcome)
    /\ semaphore' = Release(semaphore)
    /\ UNCHANGED <<include_content, max_concurrent, subs, analyzed_articles>>
    /\ UNCHANGED notBatchVars

\* the outer gather has every task's result: batch_analyze returns
BatchReturn ==
    /\ BatchCalled
    /\ analyzed_articles = NotReturned
    /\ \A a \in Articles : worker[a].pc = "done"
    /\ analyzed_articles' =
         FilterExceptions([a \in Articles |-> worker[a].task_result])
    /\ UNCHANGED <<articles, include_content, max_concurrent, semaphore, worker, subs>>
    /\ UNCHANGED notBatchVars

Next ==
    \/ \E a \in Articles : StartArticle(a)
    \/ \E a \in Articles, t \in SubNames : SubModerationReturn(a, t)
    \/ \E a \in Articles, t \in SubNames : SubCompletionReturn(a, t)
    \/ \E a \in Articles : FinishArticle(a)
    \/ BatchReturn

Spec == Init /\ [][Next]_vars

\* the batch when every external request eventually returns or fails and the
\* event loop runs every task that is ready: a waiter of the semaphore is
\* woken when a slot is free, a gather ends once its tasks have.  Every step
\* of a task changes `progress`, the return of the batch changes `returned`.
progress == <<semaphore, worker, subs>>
returned == analyzed_articles # NotReturned
Fairness ==
    /\ \A a \in 1 .. MaxArticles :
         /\ WF_progress(a \in Articles /\ StartArticle(a))
         /\ WF_progress(a \in Articles /\ FinishArticle(a))
         /\ \A t \in SubNames :
              /\ WF_progress(a \in Articles /\ SubModerationReturn(a, t))
              /\ WF_progress(a \in Articles /\ SubCompletionReturn(a, t))
    /\ WF_returned(BatchReturn)

\* a batch on the articles' contents, as main calls it by default
InitLive == Init /\ include_content

SpecLive == InitLive /\ [][Next]_vars /\ Fairness

(***************************************************************************)
(* Claims about batch_analyze, checked under Spec                          *)
(***************************************************************************)
Running == {a \in Articles : worker[a].pc = "running"}
BatchReturned == analyzed_articles # NotReturned
CompleteAnalysisKeys == {"sentiment", "classification", "summarization", "total_cost"}

\* C1: batch_analyze isolates per-article failures: it returns exactly one
\* record per article, in order; exactly the articles whose analyze_article
\* raised carry an analysis with an error marker and total_cost 0, every
\* other article carries a complete analysis (sentiment, classification,
\* summarization, total_cost); no article is dropped.
C1_BatchIsolation ==
    BatchReturned =>
        /\ Len(analyzed_articles) = Cardinality(Articles)
        /\ \A a \in Articles :
             LET r == analyzed_articles[a] IN
             /\ r.title = articles[a].title
             /\ r.content = articles[a].content
             /\ "analysis" \in DOMAIN r
             /\ worker[a].failed <=> "error" \in DOMAIN r.analysis
             /\ worker[a].failed => r.analysis.total_cost = 0
             /\ ~worker[a].failed => CompleteAnalysisKeys \subseteq DOMAIN r.analysis

\* a returned batch in which one article failed on a raising sub-task and
\* another was analyzed
C1_Witness ==
    /\ BatchReturned
    /\ \E a, b \in Articles :
         /\ worker[a].failed
         /\ \E t \in SubNames : subs[a][t].pc = "raised"
         /\ ~worker[b].failed
         /\ analyzed_articles[b].analysis.total_cost > 0

\* C2: at most max_concurrent articles are between the start of their
\* analyze_article and the attachment of their analysis or error record,
\* and the semaphore counts exactly the free slots; so an article beyond the
\* bound starts only after a running one has released its slot.
C2_BoundedInFlight ==
    /\ Cardinality(Running) <= max_concurrent
    /\ semaphore = max_concurrent - Cardinality(Running)

\* an article waits for a slot while max_concurrent others are running
C2_Witness ==
    /\ Cardinality(Running) = max_concurrent
    /\ semaphore = 0
    /\ \E a \in Articles : worker[a].pc = "queued"

\* the article's analyze_with_limit has attached its record and left the
\* semaphore
RecordAttached(a) == worker[a].pc = "done" /\ "analysis" \in DOMAIN articles[a]
SubStarted(a, t) == subs[a][t].pc # "none"
SubCompleted(a, t) == subs[a][t].pc \in {"done", "raised"}
\* a sub-task waits on an external moderation or completion request
SubWaiting(a, t) == subs[a][t].pc \in {"moderating", "completing"}

\* C26: whenever batch processing attaches a record to an article (a
\* complete analysis or an error marker) and releases that article's slot,
\* all three sub-tasks started for that article have completed; an analysis
\* is assembled only from the finished results of all three.
C26_SubTasksCompleteFirst ==
    \A a \in Articles :
        RecordAttached(a) =>
            /\ \A t \in SubNames : SubStarted(a, t) => SubCompleted(a, t)
            /\ "error" \notin DOMAIN articles[a].analysis =>
                  \A t \in SubNames :
                     /\ subs[a][t].pc = "done"
                     /\ articles[a].analysis[t] = subs[a][t].result

\* C27: during batch_analyze the number of external moderation/completion
\* calls in flight is at most 3 x max_concurrent in every reachable state,
\* including states reached after one sub-task of an article has raised
\* while its sibling sub-tasks are still waiting on an external call.
CallsInFlight ==
    Cardinality({<<a, t>> \in Articles \X SubNames : SubWaiting(a, t)})
C27_BoundedCalls ==
    ~BatchReturned => CallsInFlight <= 3 * max_concurrent

AllSlotsFree == semaphore = max_concurrent

\* C24: assuming every external moderation and completion call eventually
\* returns or fails, batch_analyze eventually returns for every article list
\* and every max_concurrent >= 1, no article is left waiting for a slot
\* forever, and on return every admission slot has been released (also for
\* articles whose analysis failed).
C24_BatchTerminates ==
    /\ <>(/\ BatchReturned
          /\ \A a \in Articles : worker[a].pc = "done")
    /\ [](BatchReturned => AllSlotsFree)

\* a returned batch in which an article had to wait for a slot and an
\* article's analysis failed
C24_Witness ==
    /\ BatchReturned
    /\ AllSlotsFree
    /\ Cardinality(Articles) > max_concurrent
    /\ \E a \in Articles : worker[a].failed

(***************************************************************************)
(* main (src/src/main.py)                                                  *)
(*                                                                         *)
(* One run of the actor: validation, aggregation, AI analysis (the batch   *)
(* above, called with max_concurrent = 3), usage tracking and output.  The *)
(* run ends with exit_code "success", "exit_code=1" (Actor.exit) or the    *)
(* name of the exception that left main.                                   *)
(***************************************************************************)
\* max_concurrent of the batch_analyze call (line 162)
MainMaxConcurrent == 3

\* inputs tried: a count inside the free tier and one beyond it
MainCounts == {3, free_tier_limit + 1}
MainKeys == {None, "sk-user"}
MainEnvKeys == {None, "sk-env"}
\* spending limits: exceeded, room for one article, the default
MainLimits ==
    {0, BuiltInCostPerArticle + BuiltInCostPerArticle \div 2, DefaultDailyLimit}

InitMain ==
    /\ CostManagerInit
    /\ daily_limit \in MainLimits
    /\ TaskIdle
    /\ BatchIdle
    /\ actor_input \in [enable_ai_analysis : BOOLEAN,
                        openai_api_key : MainKeys,
                        max_articles : MainCounts,
                        analyze_content : BOOLEAN]
    /\ openai_env = None
    /\ mpc = "start"
    /\ validation = None
    /\ fetched = FALSE
    /\ enriched = FALSE
    /\ dataset = <<>>
    /\ exit_code = None
    /\ ArticleIdle

\* sentiment_analysis and summarization are switched together
sentiment_analysis == actor_input.analyze_content
summarization == actor_input.analyze_content

\* line 62: not validation["valid"]
Rejected_Never(out) == FALSE

Rejected(out) == ~out.value.valid

\* lines 55-65: the request is validated; an exception of validate_request
\* leaves main, a rejected request ends the run with Actor.exit(exit_code=1)
Validate ==
    /\ mpc = "start"
    /\ LET out == validate_request(actor_input.enable_ai_analysis,
                                   actor_input.openai_api_key,
                                   actor_input.max_articles,
                                   current_session_cost, daily_limit)
       IN  /\ validation' = out
           /\ ret' = [op |-> "validate_request",
                      enable_ai |-> actor_input.enable_ai_analysis,
                      user_api_key |-> actor_input.openai_api_key,
                      max_articles |-> actor_input.max_articles,
                      out |-> out]
           /\ IF out.raised
              THEN mpc' = "ended" /\ exit_code' = out.exc
              ELSE IF Rejected(out)
              THEN mpc' = "ended" /\ exit_code' = "exit_code=1"
              ELSE mpc' = "validated" /\ UNCHANGED exit_code
    /\ UNCHANGED <<current_session_cost, articles_processed, daily_limit>>
    /\ UNCHANGED <<actor_input, openai_env, fetched, enriched, dataset>>
    /\ UNCHANGED <<taskVars, batchVars, articleVars>>

NoArticlesRecord == [summary |-> "No articles found"]

\* lines 76-128: the feeds are fetched, the articles filtered by keyword and,
\* when AI analysis wants content, enriched.  The aggregator fails, finds no
\* article (the run ends with one record), or leaves `kept` articles.
Aggregate ==
    /\ mpc = "validated"
    /\ fetched' = TRUE
    /\ \/ /\ mpc' = "ended"
          /\ exit_code' = "exit_code=1"
          /\ UNCHANGED <<articles, enriched, dataset>>
       \/ /\ mpc' = "ended"
          /\ exit_code' = "success"
          /\ dataset' = Append(dataset, NoArticlesRecord)
          /\ UNCHANGED <<articles, enriched>>
       \/ \E found \in 1 .. MaxArticles, kept \in 0 .. MaxArticles :
            /\ kept <= found
            /\ articles' = [a \in 1 .. kept |-> Unread]
            /\ enriched' = (actor_input.enable_ai_analysis
                              /\ (summarization \/ sentiment_analysis))
            /\ mpc' = "aggregated"
            /\ UNCHANGED <<dataset, exit_code>>
    /\ UNCHANGED <<actor_input, openai_env, validation>>
    /\ UNCHANGED <<include_content, max_concurrent, semaphore, worker, subs,
                   analyzed_articles>>
    /\ UNCHANGED <<costVars, taskVars, articleVars>>

\* lines 130-164 and 175-183: AI analysis is skipped, aborted for want of a
\* key, abandoned when AINewsAnalyzer(api_key) raises (the articles go on
\* un-analyzed), or batch_analyze is called.  The environment's key is read
\* (line 139) only when the input holds none.
BeginAnalysis ==
    /\ mpc = "aggregated"
    /\ IF actor_input.enable_ai_analysis /\ ~Truthy(actor_input.openai_api_key)
          /\ articles # <<>>
       THEN openai_env' \in MainEnvKeys
       ELSE UNCHANGED openai_env
    /\ IF actor_input.enable_ai_analysis /\ articles # <<>>
       THEN IF ~Truthy(actor_input.openai_api_key) /\ ~Truthy(openai_env')
            THEN /\ mpc' = "ended"
                 /\ exit_code' = "exit_code=1"
                 /\ UNCHANGED batchVars
            ELSE \/ /\ mpc' = "output"
                    /\ analyzed_articles' = articles
                    /\ UNCHANGED <<articles, include_content, max_concurrent,
                                   semaphore, worker, subs, exit_code>>
                 \/ /\ mpc' = "analyzing"
                    /\ include_content' = (summarization \/ sentiment_analysis)
                    /\ max_concurrent' = MainMaxConcurrent
                    /\ semaphore' = MainMaxConcurrent
                    /\ worker' = [a \in DOMAIN articles |->
                                    [pc |-> "queued", failed |-> FALSE,
                                     task_result |-> None]]
                    /\ subs' = [a \in DOMAIN articles |-> [t \in SubNames |-> NoSub]]
                    /\ UNCHANGED <<articles, analyzed_articles, exit_code>>
       ELSE /\ mpc' = "output"
            /\ analyzed_articles' = articles
            /\ UNCHANGED <<articles, include_content, max_concurrent, semaphore,
                           worker, subs, exit_code>>
    /\ UNCHANGED <<actor_input, validation, fetched, enriched, dataset>>
    /\ UNCHANGED <<costVars, taskVars, articleVars>>

TotalAiCost_Nothing(records) == 0

RECURSIVE TotalAiCost(_)
\* lines 167-170: the sum of article.get("analysis", {}).get("total_cost", 0)
TotalAiCost(records) ==
    IF records = <<>> THEN 0
    ELSE Get(Get(Head(records), "analysis", EmptyDict), "total_cost", 0)
           + TotalAiCost(Tail(records))

\* lines 160-173: batch_analyze has returned and the usage is tracked
AccountUsage ==
    /\ mpc = "analyzing"
    /\ analyzed_articles # NotReturned
    /\ articles_processed' = articles_processed + Len(analyzed_articles)
    /\ current_session_cost' = current_session_cost + TotalAiCost(analyzed_articles)
    /\ ret' = [op |-> "track_usage", out |-> Return(None)]
    /\ mpc' = "output"
    /\ UNCHANGED daily_limit
    /\ UNCHANGED <<actor_input, openai_env, validation, fetched, enriched,
                   dataset, exit_code>>
    /\ UNCHANGED <<taskVars, batchVars, articleVars>>

\* lines 189-196: the metadata added to each article
WithMetadata(article) ==
    [processed_at |-> "now",
     processing_session |-> [ai_enabled |-> actor_input.enable_ai_analysis]]
      @@ article

\* lines 185-245: every article is pushed, then the summary report unless
\* get_billing_summary raises
Output ==
    /\ mpc = "output"
    /\ LET pushed == [a \in DOMAIN analyzed_articles |->
                        WithMetadata(analyzed_articles[a])]
           cost_report == generate_cost_report(pushed, current_session_cost,
                                               articles_processed)
           billing == get_billing_summary(validation.value.pricing.tier,
                                          Len(pushed))
       IN  IF billing.raised
           THEN /\ dataset' = dataset \o pushed
                /\ exit_code' = billing.exc
           ELSE /\ dataset' =
                     Append(dataset \o pushed,
                            [type |-> "SUMMARY_REPORT",
                             results |->
                               [total_articles_found |-> Len(pushed),
                                ai_analysis_enabled |-> actor_input.enable_ai_analysis,
                                successful_analyses |->
                                   cost_report.summary.successful_analyses,
                                failed_analyses |->
                                   cost_report.summary.failed_analyses],
                             cost_analysis |-> cost_report,
                             billing_summary |-> billing.value])
                /\ exit_code' = "success"
    /\ mpc' = "ended"
    /\ UNCHANGED <<actor_input, openai_env, validation, fetched, enriched>>
    /\ UNCHANGED <<costVars, taskVars, batchVars, articleVars>>

NextMain ==
    \/ Validate
    \/ Aggregate
    \/ BeginAnalysis
    \/ \E a \in Articles : StartArticle(a)
    \/ \E a \in Articles, t \in SubNames : SubModerationReturn(a, t)
    \/ \E a \in Articles, t \in SubNames : SubCompletionReturn(a, t)
    \/ \E a \in Articles : FinishArticle(a)
    \/ BatchReturn
    \/ AccountUsage
    \/ Output

SpecMain == InitMain /\ [][NextMain]_vars

(***************************************************************************)
(* Claims about main, checked under SpecMain                               *)
(***************************************************************************)
\* validate_request has ended
Validated == mpc \notin {"idle", "start"}
ValidationFailed == Validated /\ ~validation.raised /\ ~validation.value.valid
\* some sub-task of some article has been started
AnalysisIssued ==
    \E a \in DOMAIN subs : \E t \in SubNames : subs[a][t].pc # "none"

\* C11: when request validation fails (daily limit exceeded or request too
\* large) the run ends before any processing: no feed is fetched, no content
\* is enriched, no analysis call is issued, no record is pushed and the
\* session cost stays unchanged.
C11_RejectedRunDoesNothing ==
    ValidationFailed =>
        /\ mpc = "ended"
        /\ exit_code = "exit_code=1"
        /\ ~fetched
        /\ ~enriched
        /\ ~BatchCalled
        /\ ~AnalysisIssued
        /\ dataset = <<>>
        /\ current_session_cost = 0
        /\ articles_processed = 0

\* a request larger than the remaining budget has been rejected and the run
\* has ended
C11_Witness ==
    /\ ValidationFailed
    /\ "suggested_max_articles" \in DOMAIN validation.value
    /\ mpc = "ended"

\* the pushed records that are articles (they carry the run's metadata)
IsArticleRecord(r) == "processing_session" \in DOMAIN r
PushedArticles == {i \in DOMAIN dataset : IsArticleRecord(dataset[i])}
AiRequestedOnArticles ==
    /\ mpc \in {"analyzing", "output", "ended"}
    /\ actor_input.enable_ai_analysis
    /\ articles # <<>>

\* C12: in a run where AI analysis was requested and articles were found,
\* un-analyzed output is never substituted: every pushed article record
\* carries an analysis (complete or an error marker), or else the run has
\* aborted with a failure exit and pushed no article record.
C12_NoSilentSubstitution ==
    AiRequestedOnArticles =>
        \/ \A i \in PushedArticles : "analysis" \in DOMAIN dataset[i]
        \/ /\ mpc = "ended"
           /\ exit_code # "success"
           /\ PushedArticles = {}

RECURSIVE SumOfTotalCosts(_)
SumOfTotalCosts(records) ==
    IF records = <<>> THEN 0
    ELSE Head(records).analysis.total_cost + SumOfTotalCosts(Tail(records))
\* the analysis step has run and ended
AnalysisStepDone == BatchCalled /\ mpc \in {"output", "ended"}
CountersChange ==
    \/ current_session_cost' # current_session_cost
    \/ articles_processed' # articles_processed

\* C13: within a run the session cost and the articles-processed counter
\* never decrease and change only in the one step that follows the return of
\* batch_analyze, when no article's analysis is running any more; after the
\* analysis step the session cost is the sum of total_cost over the returned
\* records (each counted once) and articles_processed is their number.
C13_UsageTrackedOnce ==
    /\ [](AnalysisStepDone =>
            /\ current_session_cost = SumOfTotalCosts(analyzed_articles)
            /\ articles_processed = Len(analyzed_articles))
    /\ [][/\ current_session_cost' >= current_session_cost
          /\ articles_processed' >= articles_processed
          /\ CountersChange =>
               /\ mpc = "analyzing" /\ mpc' = "output"
               /\ analyzed_articles # NotReturned
               /\ \A a \in Articles : worker[a].pc = "done"]_vars

\* the usage of a batch of two articles, one of them at a cost, is tracked
C13_Witness ==
    /\ AnalysisStepDone
    /\ Len(analyzed_articles) = 2
    /\ current_session_cost > 0
    /\ \E a \in Articles : worker[a].failed

(***************************************************************************)
(* analyze_article on its own (src/src/ai_analyzer.py, lines 251-309)      *)
(*                                                                         *)
(* The method as a function of the article, of include_content and of what *)
(* its sub-tasks end with, applied to two articles.                        *)
(***************************************************************************)
\* gathered: the outcomes of the sub-task calls the method would make
analyze_article(article, inc, gathered) ==
    LET title == article.title
        content == ChooseContent(article, inc)
    IN  IF content = None
        THEN Raise("TypeError")
        ELSE LET sentiment == gathered.sentiment
                 classification == gathered.classification
                 summarization_task ==
                     IF NeedsSummary(content)
                     THEN gathered.summarization
                     ELSE Return(SynthesizedSummary(article))
             IN  IF sentiment.raised THEN sentiment
                 ELSE IF classification.raised THEN classification
                 ELSE IF summarization_task.raised THEN summarization_task
                 ELSE AssembleAnalysis(title, content, sentiment.value,
                                       classification.value,
                                       summarization_task.value)

\* articles tried: titles (one empty, two with an urgency marker), bodies
\* (none, empty, short ones, a long one) and summaries
ArticleTitles == {"", "a", "ab", "BREAKING: ab", "Urgent"}
ArticleBodies == {None, "", "c", "bc", "long"}
ArticleSummaries == {"", "short"}

\* the cost of a completion in these calls
GatheredCost == calculate_cost(DefaultModel, MaxInputTokens, MaxOutputTokens)

\* what the sub-tasks end with: a flagged result, a fallback, parsed results
\* (a sentiment score of 0.7 and one of -0.8), an exception
GatheredSentiments ==
    {Return(FlaggedResult("analyze_sentiment")),
     Return(FallbackResult("analyze_sentiment")),
     Return(ParsedResult("analyze_sentiment",
                         [score |-> 70, label |-> "positive", confidence |-> 90,
                          reasoning |-> "mild"], GatheredCost)),
     Return(ParsedResult("analyze_sentiment",
                         [score |-> -80, label |-> "negative", confidence |-> 90,
                          reasoning |-> "grim"], GatheredCost)),
     Raise("ValueError")}
GatheredClassifications ==
    {Return(FallbackResult("classify_topics"))}
      \cup {Return(ParsedResult("classify_topics", payload, GatheredCost)) :
              payload \in Payloads("classify_topics")}
GatheredSummaries ==
    {Return(FlaggedResult("summarize_article"))}
      \cup {Return(ParsedResult("summarize_article", payload, GatheredCost)) :
              payload \in Payloads("summarize_article")}

\* a second article, analyzed by the same call sequence for comparison
EarlierArticles ==
    [title : {"a", "ab"}, summary : ArticleSummaries, content : {None, "c", "bc"}]

InitArticle ==
    /\ CostManagerInit
    /\ daily_limit = DefaultDailyLimit
    /\ TaskIdle
    /\ BatchIdle
    /\ MainIdle
    /\ call \in [article : [title : ArticleTitles,
                            summary : ArticleSummaries,
                            content : ArticleBodies],
                 include_content : BOOLEAN,
                 gathered : [sentiment : GatheredSentiments,
                             classification : GatheredClassifications,
                             summarization : GatheredSummaries]]
    /\ analysis_result = NoCall
    /\ earlier \in [article : EarlierArticles]

\* analyze_article(article, include_content) is called on both articles
AnalyzeArticle ==
    /\ analysis_result = NoCall
    /\ analysis_result' =
         analyze_article(call.article, call.include_content, call.gathered)
    /\ earlier' =
         [article |-> earlier.article,
          analysis_result |->
             analyze_article(earlier.article, call.include_content, call.gathered)]
    /\ UNCHANGED call
    /\ UNCHANGED <<costVars, taskVars, batchVars, mainVars>>

NextArticle == AnalyzeArticle

SpecArticle == InitArticle /\ [][NextArticle]_vars

(***************************************************************************)
(* Claims about analyze_article, checked under SpecArticle                 *)
(***************************************************************************)
Analyzed == analysis_result # NoCall
Produced == Analyzed /\ ~analysis_result.raised
BothProduced == Produced /\ ~earlier.analysis_result.raised
ChosenText == ChooseContent(call.article, call.include_content)

\* C14: analyze_article analyzes the full body when include_content is true
\* and the body is non-empty, otherwise the summary when that is non-empty,
\* otherwise the title; and the chosen text is never empty.
C14_InputTextChoice ==
    Analyzed =>
        /\ ChosenText =
             (IF call.include_content /\ Truthy(call.article.content)
              THEN call.article.content
              ELSE IF Truthy(call.article.summary)
              THEN call.article.summary
              ELSE call.article.title)
        /\ Truthy(ChosenText)

\* C15: the article identifier is a function of (title, body) only: two
\* articles with the same title and body get the same identifier and (the
\* hash being injective) two articles that differ in title or body get
\* different identifiers.
C15_IdentifierOfTitleAndBody ==
    BothProduced =>
        ((/\ call.article.title = earlier.article.title
          /\ call.article.content = earlier.article.content)
           <=> analysis_result.value.article_id
                 = earlier.analysis_result.value.article_id)

(***************************************************************************)
(* Claims about the sub-tasks analyze_article runs, checked under Spec     *)
(***************************************************************************)
\* analyze_article has been called on article a and its text is a string
Started(a) == worker[a].pc # "queued" /\ Content(a) # None
ZeroCostSummaryOf(article) ==
    [summary |-> article.summary, key_points |-> <<>>, cost |-> 0,
     moderation_flagged |-> FALSE]

\* C16: for every article analyze_article runs the sentiment and the
\* classification sub-task; it runs the summarization sub-task exactly when
\* the chosen text is longer than 200 characters, and otherwise the
\* summarization result is, from the start and without any external call, a
\* zero-cost summary made of the article's existing summary.
C16_SummarizationThreshold ==
    \A a \in Articles :
        Started(a) =>
            /\ subs[a].sentiment.pc # "none"
            /\ subs[a].classification.pc # "none"
            /\ IF TextLen(Content(a)) > 200
               THEN /\ subs[a].summarization.pc # "none"
                    /\ subs[a].summarization # Sub("done", ZeroCostSummaryOf(articles[a]))
               ELSE subs[a].summarization = Sub("done", ZeroCostSummaryOf(articles[a]))

\* one article's text is short and its summary is synthesized while its
\* sentiment call is under way; another's is long and is being summarized
C16_Witness ==
    \E a, b \in Articles :
        /\ Started(a) /\ Started(b)
        /\ TextLen(Content(a)) <= 200
        /\ subs[a].sentiment.pc = "moderating"
        /\ subs[a].summarization.pc = "done"
        /\ TextLen(Content(b)) > 200
        /\ subs[b].summarization.pc = "moderating"

(***************************************************************************)
(* Claims about the analysis analyze_article builds, checked under         *)
(* SpecArticle                                                             *)
(***************************************************************************)
\* the titles tried that hold "breaking" or "urgent" in some letter case
UrgentTitles == {"BREAKING: ab", "Urgent"}
SentimentScore ==
    IF "score" \in DOMAIN call.gathered.sentiment.value
    THEN call.gathered.sentiment.value.score ELSE 0
StrongSentiment == SentimentScore > 70 \/ SentimentScore < -70

\* C17: the trending score of every produced analysis lies in [0, 1] and is
\* min(1, 0.5 + 0.3 if the title holds "breaking" or "urgent" in any letter
\* case + 0.2 if |sentiment score| > 0.7): 0.8 for an urgent title with
\* neutral sentiment, exactly 1.0 for an urgent title with strong sentiment
\* (scores in hundredths).
C17_TrendingScore ==
    Produced =>
        LET score == analysis_result.value.trending_score
            urgent == call.article.title \in UrgentTitles
            sum == 50 + (IF urgent THEN 30 ELSE 0)
                      + (IF StrongSentiment THEN 20 ELSE 0)
        IN  /\ score >= 0 /\ score <= 100
            /\ score = (IF sum > 100 THEN 100 ELSE sum)
            /\ (urgent /\ SentimentScore = 0) => score = 80
            /\ (urgent /\ StrongSentiment) => score = 100

\* an upper-case BREAKING title with a sentiment score of -0.8 scores 1.0
C17_Witness ==
    /\ Produced
    /\ call.article.title = "BREAKING: ab"
    /\ SentimentScore = -80
    /\ analysis_result.value.trending_score = 100

\* the cost a sub-task result carries, 0 when it carries none
CostOf(r) == IF "cost" \in DOMAIN r THEN r.cost ELSE 0
SummarySkipped == TextLen(ChosenText) <= 200

\* C18: for every analysis analyze_article produces, total_cost is the sum
\* of the costs of its sentiment, classification and summarization results,
\* a skipped, flagged or failed sub-task contributing 0; so total_cost >= 0.
C18_TotalCost ==
    Produced =>
        LET v == analysis_result.value IN
        /\ v.sentiment = call.gathered.sentiment.value
        /\ v.classification = call.gathered.classification.value
        /\ ~SummarySkipped => v.summarization = call.gathered.summarization.value
        /\ v.total_cost
             = CostOf(v.sentiment) + CostOf(v.classification) + CostOf(v.summarization)
        /\ v.total_cost >= 0
        /\ SummarySkipped => CostOf(v.summarization) = 0
        /\ \A r \in {v.sentiment, v.classification, v.summarization} :
             (\/ FlaggedRead(r)
              \/ r \in {FallbackResult(t) : t \in SubTasks}) => CostOf(r) = 0

\* a flagged sentiment, a paid classification and a paid summary add up
C18_Witness ==
    /\ Produced
    /\ FlaggedRead(analysis_result.value.sentiment)
    /\ ~SummarySkipped
    /\ CostOf(analysis_result.value.summarization) > 0
    /\ analysis_result.value.total_cost
         = CostOf(analysis_result.value.classification)
             + CostOf(analysis_result.value.summarization)
    /\ analysis_result.value.total_cost > CostOf(analysis_result.value.summarization)

(***************************************************************************)
(* The end-to-end scenario, checked under SpecMain                         *)
(***************************************************************************)
FreeTierRun ==
    /\ Validated
    /\ actor_input.enable_ai_analysis
    /\ ~Truthy(actor_input.openai_api_key)
    /\ actor_input.max_articles <= free_tier_limit
RunSucceeded == mpc = "ended" /\ exit_code = "success"
SummaryReports ==
    {i \in DOMAIN dataset :
        "type" \in DOMAIN dataset[i] /\ dataset[i].type = "SUMMARY_REPORT"}

\* C20: a run with AI enabled, no user key and a requested count within the
\* free tier (3) is validated with tier "free" and total_cost 0; every
\* article it pushes carries an analysis with total_cost >= 0; and when all
\* analyses succeed its cost report shows a success_rate of "100.0%".
C20_FreeTierRun ==
    FreeTierRun =>
        /\ ~validation.raised
        /\ validation.value.valid
        /\ validation.value.pricing.tier = "free"
        /\ validation.value.pricing.total_cost = 0
        /\ \A i \in PushedArticles :
             /\ "analysis" \in DOMAIN dataset[i]
             /\ dataset[i].analysis.total_cost >= 0
        /\ RunSucceeded =>
             \A i \in SummaryReports :
                dataset[i].results.failed_analyses = 0
                   => dataset[i].cost_analysis.summary.success_rate
                        = [tenths |-> 1000]

(***************************************************************************)
(* The output of a run, checked under SpecMain                             *)
(***************************************************************************)
\* C21: in every run that pushes at least one article record, exactly one
\* summary record is pushed to the sink, it is pushed after all article
\* records, and every article record was tagged with processed_at before
\* being pushed.
C21_OneTrailingSummary ==
    (mpc = "ended" /\ PushedArticles # {}) =>
        /\ Cardinality(SummaryReports) = 1
        /\ \A i \in SummaryReports : \A j \in PushedArticles : j < i
        /\ \A j \in PushedArticles : "processed_at" \in DOMAIN dataset[j]

AiProcessing(i) == dataset[i].cost_analysis.costs.ai_processing

ReportAtOutput ==
    generate_cost_report([a \in DOMAIN analyzed_articles |->
                            WithMetadata(analyzed_articles[a])],
                         current_session_cost, articles_processed)

\* C29: in every run of main that reaches the cost report, the reported
\* platform_usage (session cost minus summed AI cost of the reported
\* articles) is never negative; the session cost is never less than the AI
\* cost the report attributes to successful articles.
C29_PlatformUsageNotNegative ==
    /\ mpc = "output" =>
          /\ ReportAtOutput.costs.platform_usage >= 0
          /\ current_session_cost >= ReportAtOutput.costs.ai_processing.total
    /\ \A i \in SummaryReports :
          LET costs == dataset[i].cost_analysis.costs IN
          /\ costs.platform_usage >= 0
          /\ costs.total_session_cost >= costs.ai_processing.total
          /\ costs.platform_usage
               = costs.total_session_cost - costs.ai_processing.total

\* a pushed report of a run whose analyses had a cost
C29_Witness ==
    \E i \in SummaryReports :
        /\ dataset[i].cost_analysis.costs.ai_processing.total > 0
        /\ dataset[i].cost_analysis.costs.total_session_cost
             = current_session_cost
        /\ dataset[i].cost_analysis.costs.platform_usage = 0

\* C30: the billing summary placed in the summary record describes the same
\* pricing tier that request validation selected for the run, for every
\* requested article count and every number of articles actually found and
\* processed (which may be smaller than the requested count).
C30_BillingTierMatches ==
    \A i \in SummaryReports :
        LET billing == dataset[i].billing_summary
            selected == validation.value.pricing
        IN  /\ billing.free_tier <=> selected.tier = "free"
            /\ ~billing.free_tier => billing.description = selected.description

\* the pushed article records for which an analysis was produced
AnalyzedRecords ==
    {j \in PushedArticles :
        /\ "analysis" \in DOMAIN dataset[j]
        /\ "error" \notin DOMAIN dataset[j].analysis}

\* C31: generate_cost_report counts a record as a successful analysis only
\* if an analysis was actually produced for it: in a run where AI analysis
\* is disabled or skipped (records carry no analysis field),
\* successful_analyses is 0.
C31_SuccessMeansAnalyzed ==
    \A i \in SummaryReports :
        /\ dataset[i].cost_analysis.summary.successful_analyses
             = Cardinality(AnalyzedRecords)
        /\ ~BatchCalled =>
             dataset[i].cost_analysis.summary.successful_analyses = 0

====
